---- MODULE Spec2Model ----
(***************************************************************************)
(* Model of the ServiceNow assistant's client-side services:               *)
(*   - ServiceNowAPI (services/servicenow.ts): token cache, verification   *)
(*     call, request dispatch, error normalisation and the 401 retry;      *)
(*   - the credential store functions (lib/servicenow, getServiceNowClient)*)
(*     against the servicenow_credentials table and its row-level-security *)
(*     policies (sql/create_servicenow_table.sql);                          *)
(*   - chat persistence (services/chat.ts) against the conversations and   *)
(*     messages tables and their policies.                                 *)
(*                                                                         *)
(* JavaScript runs each handler atomically between two awaits, so every    *)
(* action below is the code between one await and the next.                *)
(***************************************************************************)
EXTENDS Integers, Sequences, FiniteSets, TLC

(***************************************************************************)
(* Bounds of the model.                                                    *)
(***************************************************************************)
NumCalls == 2          \* public calls that may be in flight on one client
MaxSends == 3          \* substantive requests followed per public call
TickMs   == 1800000    \* the clock advances in steps of this many ms
MaxTicks == 3          \* number of clock steps followed

(***************************************************************************)
(* Program constants.                                                      *)
(***************************************************************************)
TokenTTL == 3600000    \* this.tokenExpiry = Date.now() + 3600000

Null == "null"

\* A key that an object does not have, and a key it has with the value
\* undefined.
Absent == "<absent>"
Undef  == "<undefined>"

Calls == 1..NumCalls

Ops == {"queryRecords", "getRecord", "createRecord", "updateRecord",
        "deleteRecord", "executeScript", "testConnection"}

\* HTTP statuses the server may answer a substantive request with.
Statuses == {200, 401, 404, 500}
\* What the Response body holds: a JSON document, text that is not JSON,
\* or no body at all (a null body).
Bodies == {"json", "text", "none"}
\* "neterr": fetch itself rejects (transport failure).
Responses == [status : Statuses, body : Bodies] \cup {[status |-> 0, body |-> "neterr"]}

\* Outcomes of the verification call GET table/sys_user?sysparm_limit=1.
VerifyOutcomes == {"ok", "rejected", "neterr"}

VARIABLES
  username,      \* ServiceNowAPI.username
  password,      \* ServiceNowAPI.password
  accessToken,   \* ServiceNowAPI.accessToken  (Null or the encoded credentials)
  tokenExpiry,   \* ServiceNowAPI.tokenExpiry  (ms)
  now,           \* Date.now()
  calls,         \* the public calls in flight on this client, with their position
  windowVerifs,  \* verification calls issued inside the current cache window
  verified,      \* a verification call of this client has completed successfully
  creds,         \* the rows of table public.servicenow_credentials
  authUid,       \* auth.uid(): the user of the browser's session
  nextId,        \* the next id uuid_generate_v4() hands out
  last,          \* the last credential-store call: its arguments and outcome
  conversations, \* the rows of table public.conversations
  messages,      \* the rows of table public.messages
  nextConvId,    \* the next conversation id uuid_generate_v4() hands out
  chatLast,      \* the last chat-persistence call: its arguments and outcome
  auth,          \* AuthProvider's state: user, isLoading, error, useMockAuth
  session,       \* the signed-in user the auth services hold (Supabase, mock)
  authCalls,     \* the async functions of AuthProvider that are in flight
  authLast,      \* the last step of AuthProvider, and who set the user
  sn,            \* useServiceNow's state: client, isLoading, error, credentials, selectedCredentialId
  snCalls,       \* the connect and loadCredentials calls of the hook in flight
  picked         \* the credential the user selected most recently

clientVars == <<username, password, accessToken, tokenExpiry, now, calls, windowVerifs, verified>>

storeVars == <<creds, authUid, nextId, last>>

chatVars == <<conversations, messages, nextConvId, chatLast>>

authVars == <<auth, session, authCalls, authLast>>

hookVars == <<sn, snCalls, picked>>

uiVars == <<authVars, hookVars>>

(***************************************************************************)
(* btoa(`${username}:${password}`): the encoding is kept symbolic, as the  *)
(* pair it encodes.                                                        *)
(***************************************************************************)
btoa(u, p) == <<"b64", u, ":", p>>

\* The endpoint argument of request(): a path and the URLSearchParams appended
\* to it, as the sequence of its (name, value) pairs.
NoEndpoint == [path |-> <<>>, params |-> <<>>, options |-> Undef]

\* A call that has not been made.
IdleCall ==
  [op |-> "none", pc |-> "idle", phase |-> "none",
   sends |-> 0, verifs |-> 0, verifsAtFirstSend |-> 0,
   startExpired |-> FALSE, n401 |-> 0, lastResp |-> "none",
   result |-> "none", errStatus |-> 0,
   authFailed |-> FALSE, netFailed |-> FALSE, hdrToken |-> "unset",
   endpoint |-> NoEndpoint, httpStatus |-> 0, surfaced |-> 0,
   cleared |-> FALSE]

(***************************************************************************)
(* The cache test of authenticate:                                         *)
(*   if (this.accessToken && Date.now() < this.tokenExpiry) return;        *)
(***************************************************************************)
CachedTokenUsable_IgnoreExpiry(tok, exp) == tok # Null

CachedTokenUsable_Never(tok, exp) == FALSE

CachedTokenUsable_Always(tok, exp) == TRUE

CachedTokenUsable(tok, exp) == tok # Null /\ now < exp

\* The window in which a cached token counts as valid, whatever the code does.
InCacheWindow(tok, exp) == tok # Null /\ now < exp

(***************************************************************************)
(* What a public operation hands to its caller when its body threw:        *)
(* testConnection swallows the error into false, every other operation     *)
(* rethrows a new Error("Failed to ...: " + message), which has no status. *)
(***************************************************************************)
PublicOutcome_Rethrow(op, threw) ==
  IF threw THEN "throw" ELSE IF op = "testConnection" THEN "true" ELSE "ok"

PublicOutcome(op, threw) ==
  IF op = "testConnection"
  THEN (IF threw THEN "false" ELSE "true")
  ELSE (IF threw THEN "throw" ELSE "ok")

(***************************************************************************)
(* The status carried by the error a public operation throws when          *)
(* request() threw a value with status st:                                 *)
(*   throw new Error(`Failed to get ${table} record: ${error.message}`)    *)
(* A new Error has a message and no status property (0).                   *)
(***************************************************************************)
SurfacedStatus(op, st) == 0

\* The call ends: the public operation returned or threw.
Finish(rec, threw) ==
  [rec EXCEPT !.pc = "done", !.result = PublicOutcome(rec.op, threw),
              !.surfaced = IF threw THEN SurfacedStatus(rec.op, rec.errStatus) ELSE 0]

(***************************************************************************)
(* const encodedCredentials = btoa(`${this.username}:${this.password}`)    *)
(***************************************************************************)
encodedCredentials_UsernameOnly(u, p) == btoa(u, "")

encodedCredentials(u, p) == btoa(u, p)

(***************************************************************************)
(* The counters a call keeps of its requests count up to MaxSends and stay *)
(* there: the value MaxSends reads "MaxSends or more".  request() itself   *)
(* keeps no count and puts no limit on its retries.                        *)
(***************************************************************************)
Counted(n) == IF n < MaxSends THEN n + 1 ELSE n

(***************************************************************************)
(* authenticate(), from its entry to its first await (or to its return     *)
(* or throw, when it does not await).  tok and exp are the values of       *)
(* this.accessToken and this.tokenExpiry on entry.                         *)
(***************************************************************************)
authenticate(c, rec, tok, exp) ==
  LET \* tok is null while this.accessToken was not when the caller (the 401
      \* branch of request) has just cleared the token: the calls whose authenticate
      \* has returned and whose headers are not built yet are marked.
      seen == [d \in Calls |->
                 IF tok = Null /\ accessToken # Null /\ d # c /\ calls[d].pc = "authDone"
                 THEN [calls[d] EXCEPT !.cleared = TRUE] ELSE calls[d]]
  IN
  IF CachedTokenUsable(tok, exp)
  THEN \* "Using existing ServiceNow authentication token"
       /\ accessToken' = tok
       /\ tokenExpiry' = exp
       /\ windowVerifs' = IF tok = Null THEN 0 ELSE windowVerifs
       /\ calls' = [seen EXCEPT ![c] = [rec EXCEPT !.pc = "authDone"]]
  ELSE IF username = "" \/ password = ""
  THEN \* "ServiceNow username or password is empty"
       /\ accessToken' = tok
       /\ tokenExpiry' = exp
       /\ windowVerifs' = IF tok = Null THEN 0 ELSE windowVerifs
       /\ calls' = [seen EXCEPT ![c] = Finish([rec EXCEPT !.authFailed = TRUE], TRUE)]
  ELSE \* token and expiry are set before the verification call is sent
       /\ accessToken' = encodedCredentials(username, password)
       /\ tokenExpiry' = now + TokenTTL
       /\ windowVerifs' = IF InCacheWindow(tok, exp) THEN windowVerifs + 1 ELSE 1
       /\ calls' = [seen EXCEPT ![c] =
                      [rec EXCEPT !.pc = "verifyWait", !.verifs = Counted(@)]]

(***************************************************************************)
(* queryRecords(options): the defaults of the destructuring (limit = 10,   *)
(* offset = 0, fields = [], orderDirection = "desc") apply to a key that   *)
(* is absent or undefined; the parameters are appended in the order of the *)
(* code.                                                                   *)
(***************************************************************************)
\* An optional number is <<>> when undefined and <<n>> otherwise.
Default(v, d) == IF v = <<>> THEN d ELSE v[1]

\* orderDirection = "desc"
DefaultDir(v) == IF v = Undef THEN "desc" ELSE v

\* n.toString()
toString(n) == <<"str", n>>

\* fields.join(",")
Join(fields) == <<"join", fields>>

\* if (query): a string is truthy when it is not empty.
HasFilter_EmptyCounts(query) == query # Undef

HasFilter(query) == query # Undef /\ query # ""

queryParams(o) ==
  LET limit  == Default(o.limit, 10)
      offset == Default(o.offset, 0)
      dir    == DefaultDir(o.orderDirection)
  IN  (IF HasFilter(o.query) THEN << <<"sysparm_query", o.query>> >> ELSE <<>>)
      \o << <<"sysparm_limit", toString(limit)>>, <<"sysparm_offset", toString(offset)>> >>
      \o (IF Len(o.fields) > 0 THEN << <<"sysparm_fields", Join(o.fields)>> >> ELSE <<>>)
      \o (IF o.orderBy # Undef
          THEN << <<"sysparm_order_by", o.orderBy>>, <<"sysparm_order", dir>> >>
          ELSE <<>>)

QueryOptions ==
  [table : {"incident"}, query : {Undef, "", "active=true"},
   limit : {<<>>, <<10>>, <<5>>}, offset : {<<>>, <<0>>},
   fields : {<<>>}, orderBy : {Undef}, orderDirection : {Undef}]
  \cup
  [table : {"incident"}, query : {Undef, "", "active=true"},
   limit : {<<10>>}, offset : {<<0>>},
   fields : {<<"number", "state">>}, orderBy : {"number"}, orderDirection : {Undef, "asc"}]

\* The options a public operation is called with (only queryRecords has any
\* that reach the query string).
OptionsOf(op) == IF op = "queryRecords" THEN QueryOptions ELSE {Undef}

\* The endpoint each public operation hands to request().
Endpoint(op, o) ==
  IF op = "queryRecords"
  THEN [path |-> <<"table", o.table>>, params |-> queryParams(o), options |-> o]
  ELSE IF op = "testConnection"
  THEN [path |-> <<"table", "sys_user">>,
        params |-> << <<"sysparm_limit", toString(1)>> >>, options |-> Undef]
  ELSE IF op = "executeScript"
  THEN [path |-> <<"v1/script/execute">>, params |-> <<>>, options |-> Undef]
  ELSE IF op = "createRecord"
  THEN [path |-> <<"table", "incident">>, params |-> <<>>, options |-> Undef]
  ELSE [path |-> <<"table", "incident", "sysid1">>, params |-> <<>>, options |-> Undef]

(***************************************************************************)
(* A public operation is called.  testConnection calls authenticate()      *)
(* itself before request(); every other operation goes straight to         *)
(* request(), which starts with `await this.authenticate()`.               *)
(***************************************************************************)
Start(c, op) ==
  /\ calls[c].pc = "idle"
  /\ \E o \in OptionsOf(op) :
       authenticate(c,
        [IdleCall EXCEPT !.op = op,
                         !.phase = IF op = "testConnection" THEN "pre" ELSE "req",
                         !.startExpired = (accessToken # Null /\ now >= tokenExpiry),
                         !.endpoint = Endpoint(op, o)],
        accessToken, tokenExpiry)
  /\ UNCHANGED <<username, password, now, verified, storeVars, chatVars, uiVars>>

(***************************************************************************)
(* The verification call of authenticate settles.  On failure the error is *)
(* rethrown as "Failed to authenticate with ServiceNow: ..."; accessToken  *)
(* and tokenExpiry keep the values set before the call.                    *)
(***************************************************************************)
VerifyResp(c, outcome) ==
  /\ calls[c].pc = "verifyWait"
  /\ IF outcome = "ok"
     THEN calls' = [calls EXCEPT ![c].pc = "authDone"]
     ELSE calls' = [calls EXCEPT ![c] =
                      Finish([@ EXCEPT !.authFailed = TRUE,
                                       !.netFailed = (@ \/ outcome = "neterr")], TRUE)]
  /\ verified' = (verified \/ outcome = "ok")
  /\ UNCHANGED <<username, password, accessToken, tokenExpiry, now, windowVerifs, storeVars, chatVars, uiVars>>

(***************************************************************************)
(* The continuation after an authenticate() that returned.                 *)
(*  - in testConnection's own authenticate: request() is entered and runs  *)
(*    authenticate() again;                                                *)
(*  - in request(): the headers are built from this.accessToken as it is   *)
(*    now, and the substantive request is sent.                            *)
(***************************************************************************)
AuthDone(c) ==
  /\ calls[c].pc = "authDone"
  /\ IF calls[c].phase = "pre"
     THEN authenticate(c, [calls[c] EXCEPT !.phase = "req"], accessToken, tokenExpiry)
     ELSE /\ calls' = [calls EXCEPT ![c] =
                         [@ EXCEPT !.pc = "reqWait",
                                   !.sends = Counted(@),
                                   !.verifsAtFirstSend =
                                       IF calls[c].sends = 0 THEN calls[c].verifs ELSE @,
                                   !.hdrToken = accessToken]]
          /\ UNCHANGED <<accessToken, tokenExpiry, windowVerifs>>
  /\ UNCHANGED <<username, password, now, verified, storeVars, chatVars, uiVars>>

(***************************************************************************)
(* The status carried by the value request() throws for a response, 0 when *)
(* the thrown value has no status, -1 when nothing is thrown.              *)
(*  - fetch rejected: a TypeError, no status;                              *)
(*  - ok response: response.json() is returned, and throws a SyntaxError   *)
(*    (no status) when the body is not JSON;                               *)
(*  - non-ok response: response.json() is awaited first.  With a body,     *)
(*    the body is consumed by it (whether or not it parses) and the        *)
(*    structured error thrown inside the try is caught by                  *)
(*    `catch (jsonError)`, where `await response.text()` rejects with a    *)
(*    TypeError because the body was already read: no status.  With a null *)
(*    body json() fails, text() yields "" and {status, message} is thrown. *)
(***************************************************************************)
ThrownStatus(resp) ==
  IF resp.body = "neterr" THEN 0
  ELSE IF resp.status = 200 THEN (IF resp.body = "json" THEN -1 ELSE 0)
  ELSE IF resp.body = "none" THEN resp.status
  ELSE 0

(***************************************************************************)
(* Whether the catch block of request() retries:                           *)
(*   if (error.status === 401) { ...; return this.request(endpoint, options) } *)
(***************************************************************************)
RetriesOn_AnyStatus(st, sent) == st > 0

RetriesOn(st, sent) == st = 401

(***************************************************************************)
(* What the 401 branch leaves in the cache before it calls request again:  *)
(*   this.accessToken = null; this.tokenExpiry = 0;                        *)
(***************************************************************************)
After401_CacheKept(tok, exp) == <<tok, exp>>

After401(tok, exp) == <<Null, 0>>

(***************************************************************************)
(* The substantive request settles.                                        *)
(***************************************************************************)
ReqResp(c, resp) ==
  /\ calls[c].pc = "reqWait"
  /\ LET st  == ThrownStatus(resp)
         rec == [calls[c] EXCEPT
                   !.lastResp = IF st = -1 THEN "ok" ELSE "fail",
                   !.httpStatus = resp.status,
                   !.cleared = FALSE,
                   !.netFailed = (@ \/ resp.body = "neterr"),
                   !.errStatus = IF st = -1 THEN 0 ELSE st]
     IN  IF st = -1
         THEN \* return (await response.json()) as T
              /\ calls' = [calls EXCEPT ![c] = Finish(rec, FALSE)]
              /\ UNCHANGED <<accessToken, tokenExpiry, windowVerifs>>
         ELSE IF RetriesOn(st, calls[c].sends)
         THEN \* this.accessToken = null; this.tokenExpiry = 0;
              \* return this.request(endpoint, options)
              /\ authenticate(c, [rec EXCEPT !.n401 = Counted(@)],
                              After401(accessToken, tokenExpiry)[1],
                              After401(accessToken, tokenExpiry)[2])
         ELSE \* throw error
              /\ calls' = [calls EXCEPT ![c] = Finish(rec, TRUE)]
              /\ UNCHANGED <<accessToken, tokenExpiry, windowVerifs>>
  /\ UNCHANGED <<username, password, now, verified, storeVars, chatVars, uiVars>>

\* The caller has its result; the slot is free for the next public call.
Return(c) ==
  /\ calls[c].pc = "done"
  /\ calls' = [calls EXCEPT ![c] = IdleCall]
  /\ UNCHANGED <<username, password, accessToken, tokenExpiry, now, windowVerifs, verified, storeVars, chatVars, uiVars>>

(***************************************************************************)
(* Time passes.  The clock of the model is coarse (TickMs is half a token  *)
(* lifetime), and an HTTP exchange is short against it: the clock steps    *)
(* between public calls, not in the middle of one.                         *)
(***************************************************************************)
Tick ==
  /\ \A c \in Calls : calls[c].pc \in {"idle", "done"}
  /\ now + TickMs <= MaxTicks * TickMs
  /\ now' = now + TickMs
  /\ UNCHANGED <<username, password, accessToken, tokenExpiry, calls, windowVerifs, verified, storeVars, chatVars, uiVars>>

\* A caller that awaits each public call before it makes the next one.
SeqStart(c, op) ==
  /\ \A d \in Calls : calls[d].pc = "idle"
  /\ Start(c, op)

\* No client has been made.
ClientUnused ==
  /\ username = "" /\ password = "" /\ accessToken = Null /\ tokenExpiry = 0
  /\ now = 0 /\ calls = [c \in Calls |-> IdleCall] /\ windowVerifs = 0
  /\ verified = FALSE

\* new ServiceNowAPI(credential)
ClientInit ==
  /\ username \in {"", "admin"}
  /\ password \in {"", "secret"}
  /\ accessToken = Null
  /\ tokenExpiry = 0
  /\ now = 0
  /\ calls = [c \in Calls |-> IdleCall]
  /\ windowVerifs = 0
  /\ verified = FALSE

vars == <<clientVars, storeVars, chatVars, uiVars>>

(***************************************************************************)
(* The credential store: lib/servicenow (saveServiceNowCredential,         *)
(* updateServiceNowCredential, deleteServiceNowCredential), the settings   *)
(* page handler handleUpdateCredential, getServiceNowClient, and the table *)
(* with its policies and the insert_servicenow_credential function.        *)
(***************************************************************************)
Users     == {"u1", "u2"}
CredNames == {"n1", "n2"}
Urls      == {"https://a"}
Logins    == {"admin"}
Passwords == {"p1", "p2"}
Fields    == {"name", "instance_url", "username", "password"}

MaxIds == 1            \* rows ever inserted into servicenow_credentials

NoOp ==
  [op |-> "none", id |-> 0, owner |-> "none", result |-> "none", err |-> "none",
   rpcStored |-> FALSE, directTried |-> FALSE, omitted |-> {}, client |-> "none",
   emptyPassword |-> FALSE, formEmpty |-> FALSE]

\* No chat-persistence call has been made.
NoChatOp ==
  [op |-> "none", id |-> 0, owner |-> "none", failed |-> FALSE,
   ret |-> "none", retId |-> 0, msgsIn |-> <<>>, conv |-> <<>>, list |-> <<>>]

(***************************************************************************)
(* The React state of AuthProvider and of the useServiceNow hook as        *)
(* useState creates it, with nothing in flight.                            *)
(***************************************************************************)
MaxAuthCalls == 2      \* async functions of AuthProvider in flight at once
MaxConnects  == 4      \* connect calls of the hook in flight at once
NumCreds     == 2      \* credentials the signed-in user has stored

AuthSlots == 1..MaxAuthCalls
CredIds   == 1..NumCreds

\* useState<User | null>(null), useState(true), useState<string | null>(null),
\* useState<boolean>(false)
NoAuth == [user |-> Null, isLoading |-> TRUE, error |-> Null, useMockAuth |-> FALSE]

\* Nobody is signed in, neither with Supabase nor with the mock service.
NoSession == [supabase |-> Null, mock |-> Null]

\* A slot with no async function in flight.
NoAuthCall == [fn |-> "none", mock |-> FALSE, pc |-> "idle", value |-> Null, early |-> FALSE]

NoAuthStep == [step |-> "none", setBy |-> "none"]

\* A credential id that is null (ids are 1, 2, ...).
NoCred == 0

\* useState<ServiceNowAPI | null>(null), useState<boolean>(false),
\* useState<string | null>(null), useState<any[]>([]),
\* useState<string | null>(options.credentialId || null).  credentials holds the
\* ids of the rows; the select that fills it has no ORDER BY, so that its
\* order is not kept.
NoHook ==
  [client |-> NoCred, isLoading |-> FALSE, error |-> Null, credentials |-> {},
   selectedCredentialId |-> NoCred]

\* What the user chose last in the credential list, and whether any connect
\* has failed since the hook was mounted.
NoPick == [id |-> NoCred, failed |-> FALSE]

\* No connect and no loadCredentials is in flight.  connect counts the calls in
\* flight for each credential; load holds the selectedCredentialId each
\* loadCredentials in flight has captured.
NoHookCalls == [connect |-> [k \in CredIds |-> 0], load |-> {}]

UiUnused ==
  /\ auth = NoAuth /\ session = NoSession
  /\ authCalls = [k \in AuthSlots |-> NoAuthCall] /\ authLast = NoAuthStep
  /\ sn = NoHook /\ snCalls = NoHookCalls /\ picked = NoPick

NewRow(id, uid, name, url, un, pw) ==
  [id |-> id, user_id |-> uid, name |-> name, instance_url |-> url,
   username |-> un, password |-> pw]

\* USING (auth.uid() = user_id): the rows a select, update or delete of the
\* session can see.
RLSVisible(r) == r.user_id = authUid

\* WITH CHECK (auth.uid() = user_id) of the insert policy.
RLSInsertCheck(uid) == uid = authUid

\* UNIQUE(user_id, name)
UniqueOK(T, uid, name) == ~ \E r \in T : r.user_id = uid /\ r.name = name

(***************************************************************************)
(* saveServiceNowCredential.  env holds its inputs from the environment:   *)
(*   tc  the select count probe: "ok", "PGRST116" or "error"               *)
(*   ct  createServiceNowCredentialsTable throws                           *)
(*   ro  the rpc call: "ok" (the function ran), "error" (rpcError without  *)
(*       running it) or "exception" (rpc threw)                            *)
(*   fo  the read-back of the row the function inserted                    *)
(*   io  the direct insert reached the table ("ok") or failed before it    *)
(*       ("error")                                                         *)
(*   uk  supabase.auth.getUser() returned a user                           *)
(* insert_servicenow_credential is SECURITY DEFINER: its INSERT is not     *)
(* subject to the policies, only to UNIQUE(user_id, name).                 *)
(***************************************************************************)
RpcStores(uid, name, rpcOut) == rpcOut = "ok" /\ UniqueOK(creds, uid, name)

saveServiceNowCredential(userId, name, url, un, pw, env) ==
  LET tableCheck   == env.tc
      createThrows == env.ct
      rpcOut       == env.ro
      fetchOut     == env.fo
      insertOut    == env.io
      userKnown    == env.uk
      row     == NewRow(nextId, userId, name, url, un, pw)
      op      == [NoOp EXCEPT !.op = "save", !.owner = userId, !.id = nextId]
      stored  == RpcStores(userId, name, rpcOut)
      afterRpc == IF stored THEN creds \cup {row} ELSE creds
  IN
  /\ IF tableCheck = "error" \/ (tableCheck = "PGRST116" /\ createThrows)
     THEN \* throw tableCheckError / createServiceNowCredentialsTable threw
          /\ creds' = creds
          /\ nextId' = nextId
          /\ last' = [op EXCEPT !.result = "threw", !.err = "other"]
     ELSE IF stored /\ fetchOut = "ok" /\ RLSVisible(row)
     THEN \* return fetchedData
          /\ creds' = afterRpc
          /\ nextId' = nextId + 1
          /\ last' = [op EXCEPT !.result = "returned", !.rpcStored = TRUE]
     ELSE \* "Falling back to direct insert..."
          LET base == [op EXCEPT !.rpcStored = stored, !.directTried = TRUE]
          IN
          /\ nextId' = IF stored \/ (insertOut = "ok" /\ RLSInsertCheck(userId)
                                      /\ UniqueOK(afterRpc, userId, name))
                       THEN nextId + 1 ELSE nextId
          /\ IF insertOut = "error"
             THEN /\ creds' = afterRpc
                  /\ last' = [base EXCEPT !.result = "threw", !.err = "other"]
             ELSE IF ~ RLSInsertCheck(userId)
             THEN \* "new row violates row-level security policy"
                  /\ creds' = afterRpc
                  /\ last' = [base EXCEPT !.result = "threw",
                                !.err = IF userKnown /\ authUid # userId
                                        THEN "mismatch" ELSE "rls"]
             ELSE IF ~ UniqueOK(afterRpc, userId, name)
             THEN /\ creds' = afterRpc
                  /\ last' = [base EXCEPT !.result = "threw", !.err = "unique"]
             ELSE /\ creds' = afterRpc \cup {row}
                  /\ last' = [base EXCEPT !.result = "returned"]
  /\ nextId' <= MaxIds + 1
  /\ UNCHANGED <<authUid, clientVars, chatVars, uiVars>>

(***************************************************************************)
(* The rows a statement filtered with .eq("id", id).eq("user_id", userId)  *)
(* acts on, under the policies of the session.                             *)
(***************************************************************************)
Matching_IdOnly(id, userId) ==
  {r \in creds : r.id = id /\ RLSVisible(r)}

Matching(id, userId) ==
  {r \in creds : r.id = id /\ r.user_id = userId /\ RLSVisible(r)}

\* deleteServiceNowCredential(id, userId); out is "error" when the request fails.
deleteServiceNowCredential(id, userId, out) ==
  LET op == [NoOp EXCEPT !.op = "delete", !.id = id, !.owner = userId]
  IN
  /\ IF out = "error"
     THEN /\ creds' = creds
          /\ last' = [op EXCEPT !.result = "threw", !.err = "other"]
     ELSE /\ creds' = creds \ Matching(id, userId)
          /\ last' = [op EXCEPT !.result = "returned"]
  /\ UNCHANGED <<authUid, nextId, clientVars, chatVars, uiVars>>

(***************************************************************************)
(* The body .update(updates) sends: JSON.stringify drops the keys whose    *)
(* value is undefined, so the PATCH names only the keys that have a value. *)
(***************************************************************************)
Sent_UndefinedAsEmpty(updates) ==
  [f \in {g \in Fields : updates[g] # Absent} |->
      IF updates[f] = Undef THEN "" ELSE updates[f]]

Sent(updates) ==
  [f \in {g \in Fields : updates[g] \notin {Absent, Undef}} |-> updates[f]]

\* The row after SET of the columns the body names.
Patched(r, body) ==
  [f \in DOMAIN r |-> IF f \in DOMAIN body THEN body[f] ELSE r[f]]

(***************************************************************************)
(* updateServiceNowCredential(id, userId, updates), ending in              *)
(* .select().single(): no row matched is the error PGRST116.  form is the  *)
(* password field of the settings form when handleUpdateCredential makes   *)
(* the call, and Absent when the function is called directly.              *)
(***************************************************************************)
updateServiceNowCredential(id, userId, updates, out, form) ==
  LET op   == [NoOp EXCEPT !.op = "update", !.id = id, !.owner = userId,
                 !.omitted = {f \in Fields : updates[f] \in {Absent, Undef}},
                 !.emptyPassword = (updates.password = ""),
                 !.formEmpty = (form = "")]
      rows == Matching(id, userId)
      body == Sent(updates)
      new  == {Patched(r, body) : r \in rows}
  IN
  /\ IF out = "error"
     THEN /\ creds' = creds
          /\ last' = [op EXCEPT !.result = "threw", !.err = "other"]
     ELSE IF rows = {}
     THEN /\ creds' = creds
          /\ last' = [op EXCEPT !.result = "threw", !.err = "norow"]
     ELSE IF \E n \in new, r \in creds \ rows : r.user_id = n.user_id /\ r.name = n.name
     THEN \* UNIQUE(user_id, name)
          /\ creds' = creds
          /\ last' = [op EXCEPT !.result = "threw", !.err = "unique"]
     ELSE /\ creds' = (creds \ rows) \cup new
          /\ last' = [op EXCEPT !.result = "returned"]
  /\ UNCHANGED <<authUid, nextId, clientVars, chatVars, uiVars>>

(***************************************************************************)
(* handleUpdateCredential(id, credential) of the settings page: name,      *)
(* instance_url and username are always passed, the password only when it  *)
(* is not empty; the owner passed is the signed-in user.                   *)
(***************************************************************************)
HandlerUpdates_PasswordAlways(credential) == [f \in Fields |-> credential[f]]

HandlerUpdates(credential) ==
  [f \in Fields |->
     IF f = "password"
     THEN (IF credential.password # "" THEN credential.password ELSE Absent)
     ELSE credential[f]]

handleUpdateCredential(id, credential, out) ==
  updateServiceNowCredential(id, authUid, HandlerUpdates(credential), out, credential.password)

(***************************************************************************)
(* getServiceNowClient(credentialId, userId): .single() yields data only   *)
(* when exactly one row matches; an error, no data or an exception all end *)
(* in null.  out is "ok", "error" or "exception".                          *)
(***************************************************************************)
ClientOf(r) == btoa(r.username, r.password)

GetClientOutcome_NoCatch(out, n) ==
  IF out = "exception" THEN "threw" ELSE IF out = "ok" /\ n = 1 THEN "client" ELSE "null"

GetClientOutcome(out, n) == IF out = "ok" /\ n = 1 THEN "client" ELSE "null"

getServiceNowClient(id, userId, out) ==
  LET op   == [NoOp EXCEPT !.op = "getClient", !.id = id, !.owner = userId,
                 !.err = IF out = "ok" THEN "none" ELSE "lookup"]
      rows == Matching(id, userId)
      res  == GetClientOutcome(out, Cardinality(rows))
  IN
  /\ last' = [op EXCEPT !.result = res,
                 !.client = IF res = "client" /\ rows # {}
                            THEN ClientOf(CHOOSE r \in rows : TRUE) ELSE "none"]
  /\ UNCHANGED <<creds, authUid, nextId, clientVars, chatVars, uiVars>>

\* Another user signs in on this browser.
SignIn(u) ==
  /\ u # authUid
  /\ authUid' = u
  /\ last' = NoOp
  /\ UNCHANGED <<creds, nextId, clientVars, chatVars, uiVars>>

Outs == {"ok", "error"}
AllUpdates ==
  [name : {"n2", Absent},
   instance_url : Urls \cup {Absent},
   username : Logins \cup {Absent},
   password : Passwords \cup {"", Absent, Undef}]
FormValues == [name : CredNames, instance_url : Urls, username : Logins,
               password : Passwords \cup {""}]
Ids == 1..MaxIds

StoreInit ==
  /\ creds = {}
  /\ authUid \in Users
  /\ nextId = 1
  /\ last = NoOp
  /\ username = "" /\ password = "" /\ accessToken = Null /\ tokenExpiry = 0
  /\ now = 0 /\ calls = [c \in Calls |-> IdleCall] /\ windowVerifs = 0
  /\ verified = FALSE
  /\ UiUnused
  /\ conversations = {} /\ messages = {} /\ nextConvId = 1 /\ chatLast = NoChatOp

\* A failed request changes nothing whatever it carried: one body stands for all.
FailedUpdates ==
  {[name |-> "n2", instance_url |-> Absent, username |-> Absent, password |-> Undef]}

\* The environment of one saveServiceNowCredential call; an outcome is drawn
\* only for the requests the call gets to make.
SaveEnvs ==
  {e \in [tc : {"ok", "PGRST116", "error"}, ct : BOOLEAN,
          ro : {"ok", "error", "exception"}, fo : Outs, io : Outs, uk : BOOLEAN] :
     /\ (e.tc # "PGRST116" => ~ e.ct)
     /\ ((e.tc = "error" \/ e.ct) => (e.ro = "error" /\ e.io = "error"))
     /\ (e.ro # "ok" => e.fo = "error")
     /\ (e.io = "error" => ~ e.uk)}

StoreNext ==
  \/ \E u \in Users, n \in CredNames, url \in Urls, un \in Logins, pw \in {"p1"},
        e \in SaveEnvs :
        saveServiceNowCredential(u, n, url, un, pw, e)
  \/ \E id \in Ids, u \in Users, out \in Outs : deleteServiceNowCredential(id, u, out)
  \/ \E id \in Ids, u \in Users, out \in Outs :
        \E upd \in (IF out = "ok" THEN AllUpdates ELSE FailedUpdates) :
           updateServiceNowCredential(id, u, upd, out, Absent)
  \/ \E id \in Ids, cr \in FormValues, out \in Outs : handleUpdateCredential(id, cr, out)
  \/ \E id \in Ids, u \in Users, out \in {"ok", "error", "exception"} :
        getServiceNowClient(id, u, out)
  \/ \E u \in Users : SignIn(u)

(***************************************************************************)
(* Chat persistence (services/chat.ts) against the tables conversations and *)
(* messages and their row-level-security policies                          *)
(* (supabase/migrations/20240701000001_create_chat_history_tables.sql).    *)
(***************************************************************************)
MaxConvs == 2          \* conversations ever inserted
MaxMsgs  == 2          \* messages passed to one saveConversation call
MaxChatTicks == 1      \* clock steps followed between chat calls

Stamps == {1, 2}       \* the instants (ms) a ChatMessage.timestamp may hold

\* Date.prototype.toISOString(): the text of an instant, to the millisecond.
toISOString(t) == <<"iso", t>>

\* The instant a timestamptz column stores for an ISO text, and the instant
\* new Date(text) denotes.
timestamptz(text) == text[2]

Date(text) == text[2]

\* The i-th ChatMessage of a list, with timestamp ts.  An optional value is
\* the empty set when undefined or null, and {v} when it is v.
ChatMessage(i, ts) ==
  [id |-> <<"client", i>>, content |-> <<"text", i>>,
   sender |-> IF i % 2 = 1 THEN "user" ELSE "ai",
   timestamp |-> ts,
   codeSnippets |-> IF i = 1 THEN {<<"snippet">>} ELSE {}]

\* The message lists saveConversation is called with: MaxMsgs messages, with
\* every combination of timestamps.
MessageLists ==
  {[i \in 1..MaxMsgs |-> ChatMessage(i, f[i])] : f \in [1..MaxMsgs -> Stamps]}

\* USING / WITH CHECK (auth.uid() = user_id) on conversations.
ConvVisible(c) == c.user_id = authUid

\* The policies on messages: the parent conversation belongs to auth.uid().
MsgVisible(m) ==
  \E c \in conversations : c.id = m.conversation_id /\ c.user_id = authUid

\* The row saveConversation inserts for message i of the list; the id is the
\* store's (uuid_generate_v4()), not the ChatMessage's.
MessageRow(convId, i, message) ==
  [id |-> <<"uuid", convId, i>>,
   conversation_id |-> convId,
   content |-> message.content,
   sender |-> message.sender,
   created_at |-> timestamptz(toISOString(message.timestamp)),
   metadata |-> IF message.codeSnippets # {}
                THEN {[codeSnippets |-> message.codeSnippets]} ELSE {}]

\* What is left of the new conversation row when the insert of the messages
\* failed: saveConversation logs and returns null.
AfterMessagesError_RolledBack(convs, conv) == convs \ {conv}

AfterMessagesError(convs, conv) == convs

(***************************************************************************)
(* saveConversation(userId, title, messages); co and mo are the outcomes   *)
(* of the two inserts ("ok", or "error" for a failure of the store).       *)
(***************************************************************************)
saveConversation(userId, title, msgs, co, mo) ==
  LET id   == nextConvId
      conv == [id |-> id, user_id |-> userId, title |-> title,
               created_at |-> timestamptz(toISOString(now)),
               updated_at |-> timestamptz(toISOString(now))]
      rows == {MessageRow(id, i, msgs[i]) : i \in DOMAIN msgs}
      op   == [NoChatOp EXCEPT !.op = "saveConversation",
                 !.owner = userId, !.msgsIn = msgs]
  IN
  /\ nextConvId <= MaxConvs
  /\ IF co = "error" \/ userId # authUid
     THEN \* conversationError: return null
          /\ conversations' = conversations
          /\ messages' = messages
          /\ nextConvId' = nextConvId
          /\ chatLast' = [op EXCEPT !.failed = TRUE, !.ret = "null", !.msgsIn = <<>>]
     ELSE IF mo = "error"
     THEN \* messagesError: return null
          /\ conversations' = AfterMessagesError(conversations \cup {conv}, conv)
          /\ messages' = messages
          /\ nextConvId' = nextConvId + 1
          /\ chatLast' = [op EXCEPT !.failed = TRUE, !.ret = "null", !.id = id]
     ELSE /\ conversations' = conversations \cup {conv}
          /\ messages' = messages \cup rows
          /\ nextConvId' = nextConvId + 1
          /\ chatLast' = [op EXCEPT !.ret = "id", !.retId = id, !.id = id]
  /\ UNCHANGED <<clientVars, storeVars, uiVars>>

\* The sequences that list every element of S once.
Enumerations(S) ==
  {s \in [1..Cardinality(S) -> S] : \A i, j \in DOMAIN s : i # j => s[i] # s[j]}

\* .order("updated_at", { ascending: false })
UpdatedDescending_Ascending(s) ==
  \A i, j \in DOMAIN s : i < j => s[i].updated_at <= s[j].updated_at

UpdatedDescending(s) ==
  \A i, j \in DOMAIN s : i < j => s[i].updated_at >= s[j].updated_at

\* .order("created_at", { ascending: true })
CreatedAscending_Descending(s) ==
  \A i, j \in DOMAIN s : i < j => s[i].created_at >= s[j].created_at

CreatedAscending(s) ==
  \A i, j \in DOMAIN s : i < j => s[i].created_at <= s[j].created_at

\* A timestamptz column as the API returns it, read by new Date(...).
ReadDate(instant) == Date(toISOString(instant))

\* data.map((conv) => ({ id, title, createdAt, updatedAt }))
ConversationOf(c) ==
  [id |-> c.id, title |-> c.title,
   createdAt |-> ReadDate(c.created_at), updatedAt |-> ReadDate(c.updated_at)]

\* messagesData.map((msg) => ({ id, content, sender, timestamp, codeSnippets }))
MessageOf(m) ==
  [id |-> m.id, content |-> m.content, sender |-> m.sender,
   timestamp |-> ReadDate(m.created_at),
   codeSnippets |-> UNION {d.codeSnippets : d \in m.metadata}]

(***************************************************************************)
(* getConversations(userId): rows with equal updated_at come in any order. *)
(***************************************************************************)
getConversations(userId, out) ==
  LET op   == [NoChatOp EXCEPT !.op = "getConversations", !.owner = userId]
      rows == {c \in conversations : c.user_id = userId /\ ConvVisible(c)}
  IN
  /\ IF out = "error"
     THEN chatLast' = [op EXCEPT !.failed = TRUE, !.ret = "list"]
     ELSE \E s \in Enumerations(rows) :
            /\ UpdatedDescending(s)
            /\ chatLast' = [op EXCEPT !.ret = "list",
                              !.list = [i \in DOMAIN s |-> ConversationOf(s[i])]]
  /\ UNCHANGED <<conversations, messages, nextConvId, clientVars, storeVars, uiVars>>

(***************************************************************************)
(* getConversationWithMessages(conversationId): .single() is an error when *)
(* no row is visible; messages with equal created_at come in any order.    *)
(***************************************************************************)
getConversationWithMessages(id, co, mo) ==
  LET op    == [NoChatOp EXCEPT !.op = "getConversationWithMessages", !.id = id]
      convs == {c \in conversations : c.id = id /\ ConvVisible(c)}
      rows  == {m \in messages : m.conversation_id = id /\ MsgVisible(m)}
  IN
  /\ IF co = "error" \/ mo = "error"
     THEN chatLast' = [op EXCEPT !.failed = TRUE, !.ret = "null"]
     ELSE IF convs = {}
     THEN chatLast' = [op EXCEPT !.ret = "null"]
     ELSE \E c \in convs, s \in Enumerations(rows) :
            /\ CreatedAscending(s)
            /\ chatLast' = [op EXCEPT !.ret = "conversation",
                              !.conv = ConversationOf(c),
                              !.list = [i \in DOMAIN s |-> MessageOf(s[i])]]
  /\ UNCHANGED <<conversations, messages, nextConvId, clientVars, storeVars, uiVars>>

(***************************************************************************)
(* updateConversationTitle(conversationId, title): an update that matches  *)
(* no row is not an error.                                                 *)
(***************************************************************************)
updateConversationTitle(id, title, out) ==
  LET op   == [NoChatOp EXCEPT !.op = "updateConversationTitle", !.id = id]
      rows == {c \in conversations : c.id = id /\ ConvVisible(c)}
  IN
  /\ IF out = "error"
     THEN /\ conversations' = conversations
          /\ chatLast' = [op EXCEPT !.failed = TRUE, !.ret = "false"]
     ELSE /\ conversations' =
               (conversations \ rows) \cup
               {[c EXCEPT !.title = title,
                          !.updated_at = timestamptz(toISOString(now))] : c \in rows}
          /\ chatLast' = [op EXCEPT !.ret = "true"]
  /\ UNCHANGED <<messages, nextConvId, clientVars, storeVars, uiVars>>

\* The conversation rows .delete().eq("id", conversationId) removes.
ConvsToDelete_None(id) == {}

ConvsToDelete(id) == {c \in conversations : c.id = id /\ ConvVisible(c)}

(***************************************************************************)
(* deleteConversation(conversationId): the messages are deleted first, then *)
(* the conversation (whose deletion cascades to its messages); mo and co   *)
(* are the outcomes of the two requests.                                   *)
(***************************************************************************)
deleteConversation(id, mo, co) ==
  LET op     == [NoChatOp EXCEPT !.op = "deleteConversation", !.id = id]
      mrows  == {m \in messages : m.conversation_id = id /\ MsgVisible(m)}
      crows  == ConvsToDelete(id)
      cascade == {m \in messages : \E c \in crows : m.conversation_id = c.id}
  IN
  /\ IF mo = "error"
     THEN /\ conversations' = conversations
          /\ messages' = messages
          /\ chatLast' = [op EXCEPT !.failed = TRUE, !.ret = "false"]
     ELSE IF co = "error"
     THEN /\ conversations' = conversations
          /\ messages' = messages \ mrows
          /\ chatLast' = [op EXCEPT !.failed = TRUE, !.ret = "false"]
     ELSE /\ conversations' = conversations \ crows
          /\ messages' = (messages \ mrows) \ cascade
          /\ chatLast' = [op EXCEPT !.ret = "true"]
  /\ UNCHANGED <<nextConvId, clientVars, storeVars, uiVars>>

ConvIds == 1..MaxConvs

\* Time passes between two chat calls.  new Date() reads the client's clock in
\* milliseconds: two calls started with no step of the clock between them
\* (within the same millisecond) read the same instant.
ChatTick ==
  /\ now + TickMs <= MaxChatTicks * TickMs
  /\ now' = now + TickMs
  /\ UNCHANGED <<username, password, accessToken, tokenExpiry, calls, windowVerifs, verified, storeVars, chatVars, uiVars>>

\* Another user signs in on this browser; what the previous user's last call
\* returned is gone with their page.
ChatSignIn(u) ==
  /\ u # authUid
  /\ authUid' = u
  /\ chatLast' = NoChatOp
  /\ UNCHANGED <<creds, nextId, last, conversations, messages, nextConvId, clientVars, uiVars>>

ChatUnused ==
  /\ conversations = {} /\ messages = {} /\ nextConvId = 1 /\ chatLast = NoChatOp

ChatInit ==
  /\ conversations = {} /\ messages = {} /\ nextConvId = 1 /\ chatLast = NoChatOp
  /\ authUid \in Users
  /\ creds = {} /\ nextId = 1 /\ last = NoOp
  /\ username = "" /\ password = "" /\ accessToken = Null /\ tokenExpiry = 0
  /\ now = 0 /\ calls = [c \in Calls |-> IdleCall] /\ windowVerifs = 0
  /\ verified = FALSE
  /\ UiUnused

\* The outcomes of two requests made one after the other: the second is made
\* only when the first did not fail.
TwoOuts == {<<"ok", "ok">>, <<"ok", "error">>, <<"error", "error">>}

ChatNext ==
  \/ \E u \in Users, t \in {"t1"}, ms \in MessageLists, o \in TwoOuts :
        saveConversation(u, t, ms, o[1], o[2])
  \/ \E u \in Users, out \in Outs : getConversations(u, out)
  \/ \E id \in ConvIds, o \in TwoOuts : getConversationWithMessages(id, o[1], o[2])
  \/ \E id \in ConvIds, t \in {"t2"}, out \in Outs : updateConversationTitle(id, t, out)
  \/ \E id \in ConvIds, o \in TwoOuts : deleteConversation(id, o[1], o[2])
  \/ \E u \in Users : ChatSignIn(u)
  \/ ChatTick

\* A save whose conversation insert is rejected ends the same way whatever its
\* messages and the store's answers: one list and one answer stand for all.
SaveInputs(u) ==
  IF u = authUid
  THEN MessageLists \X TwoOuts
  ELSE {<<[i \in 1..MaxMsgs |-> ChatMessage(i, 1)], <<"error", "error">> >>}

\* The calls that write and read messages, for one user after another.
MessagesNext ==
  \/ \E u \in Users, t \in {"t1"} : \E inp \in SaveInputs(u) :
        saveConversation(u, t, inp[1], inp[2][1], inp[2][2])
  \/ \E id \in ConvIds, out \in Outs : getConversationWithMessages(id, out, out)
  \/ \E id \in ConvIds, o \in TwoOuts : deleteConversation(id, o[1], o[2])
  \/ \E u \in Users : ChatSignIn(u)

\* The calls that write and list conversations as the clock moves on, for one
\* user after another; every conversation is saved with the same messages.
TitlesNext ==
  \/ \E u \in Users, t \in {"t1"}, out \in Outs :
        saveConversation(u, t, [i \in 1..MaxMsgs |-> ChatMessage(i, 1)], out, out)
  \/ \E u \in Users, out \in Outs : getConversations(u, out)
  \/ \E id \in ConvIds, t \in {"t2"}, out \in Outs : updateConversationTitle(id, t, out)
  \/ \E u \in Users : ChatSignIn(u)
  \/ ChatTick

(***************************************************************************)
(* AuthProvider (context/AuthContext): the state user, isLoading, error    *)
(* and useMockAuth, the loadUser effect and the functions of the context.  *)
(* An async function runs to its await in the step that starts it and from *)
(* the answer to its end in the step that resolves it.  session is what    *)
(* the Supabase client and the mock service keep of the signed-in user.    *)
(***************************************************************************)
\* The first slot with no async function in flight.
FreeAuthSlot(k) ==
  /\ authCalls[k].fn = "none"
  /\ \A j \in AuthSlots : j < k => authCalls[j].fn # "none"

\* An async function of the provider up to its await: setIsLoading(true), and
\* setError(null) in all but loadUser; it keeps the useMockAuth and the user of
\* the render that made it.
AuthCallStart(k, fn, value) ==
  /\ FreeAuthSlot(k)
  /\ authCalls' = [authCalls EXCEPT ![k] =
        [fn |-> fn, mock |-> auth.useMockAuth, pc |-> "sent", value |-> value,
         early |-> FALSE]]
  /\ auth' = [auth EXCEPT !.isLoading = TRUE,
                          !.error = IF fn = "loadUser" THEN @ ELSE Null]
  /\ authLast' = [authLast EXCEPT !.step = fn]
  /\ UNCHANGED <<session, clientVars, storeVars, chatVars, hookVars>>

\* authService.getCurrentUser: supabase.auth.getUser() answers with the user of
\* the session, and an error is caught and becomes null.
getCurrentUser(out) == IF out = "ok" THEN session.supabase ELSE Null

\* loadUser in Supabase mode, the answer of getCurrentUser arrives.
LoadUserRead(k, out) ==
  /\ authCalls[k].fn = "loadUser" /\ authCalls[k].pc = "sent"
  /\ authCalls' = [authCalls EXCEPT ![k].pc = "read", ![k].value = getCurrentUser(out)]
  /\ authLast' = [authLast EXCEPT !.step = "loadUser"]
  /\ UNCHANGED <<auth, session, clientVars, storeVars, chatVars, hookVars>>

\* loadUser after its await: setUser(currentUser), setIsLoading(false).
LoadUserResolve(k) ==
  /\ authCalls[k].fn = "loadUser" /\ authCalls[k].pc = "read"
  /\ auth' = [auth EXCEPT !.user = authCalls[k].value, !.isLoading = FALSE]
  /\ authCalls' = [authCalls EXCEPT ![k] = NoAuthCall]
  /\ authLast' = [step |-> "loadUser", setBy |-> "loadUser"]
  /\ UNCHANGED <<session, clientVars, storeVars, chatVars, hookVars>>

\* toggleMockAuth(value) and the effect on [useMockAuth] it triggers.  In mock
\* mode mockGetCurrentUser reads the stored user without waiting for anything,
\* so that loadUser ends in the step that starts it; in Supabase mode loadUser
\* is left waiting for getCurrentUser.
toggleMockAuth(value) ==
  IF value = auth.useMockAuth
  THEN UNCHANGED vars
  ELSE IF value
  THEN /\ auth' = [auth EXCEPT !.useMockAuth = TRUE, !.user = session.mock,
                               !.isLoading = FALSE]
       /\ authLast' = [step |-> "toggleMockAuth", setBy |-> "loadUser"]
       /\ UNCHANGED <<session, authCalls, clientVars, storeVars, chatVars, hookVars>>
  ELSE \E k \in AuthSlots :
       /\ FreeAuthSlot(k)
       /\ auth' = [auth EXCEPT !.useMockAuth = FALSE, !.isLoading = TRUE]
       /\ authCalls' = [authCalls EXCEPT ![k] =
             [fn |-> "loadUser", mock |-> FALSE, pc |-> "sent", value |-> Null,
              early |-> FALSE]]
       /\ authLast' = [authLast EXCEPT !.step = "toggleMockAuth"]
       /\ UNCHANGED <<session, clientVars, storeVars, chatVars, hookVars>>

\* login(credentials) up to its await.
login(k, u) == AuthCallStart(k, "login", u)

\* login after its await: mockLogin or authService.login has signed the user in
\* and setUser(loggedInUser) follows, or it threw and setError follows.  The
\* loadUser calls in flight at that moment are marked as begun earlier.
LoginResolve(k, out) ==
  /\ authCalls[k].fn = "login" /\ authCalls[k].pc = "sent"
  /\ IF out = "ok"
     THEN /\ session' = IF authCalls[k].mock
                        THEN [session EXCEPT !.mock = authCalls[k].value]
                        ELSE [session EXCEPT !.supabase = authCalls[k].value]
          /\ auth' = [auth EXCEPT !.user = authCalls[k].value, !.isLoading = FALSE]
          /\ authLast' = [step |-> "login", setBy |-> "login"]
          /\ authCalls' = [j \in AuthSlots |->
                IF j = k THEN NoAuthCall
                ELSE IF authCalls[j].fn = "loadUser"
                THEN [authCalls[j] EXCEPT !.early = TRUE]
                ELSE authCalls[j]]
     ELSE /\ auth' = [auth EXCEPT !.error = "Failed to login", !.isLoading = FALSE]
          /\ authLast' = [authLast EXCEPT !.step = "login"]
          /\ authCalls' = [authCalls EXCEPT ![k] = NoAuthCall]
          /\ UNCHANGED session
  /\ UNCHANGED <<clientVars, storeVars, chatVars, hookVars>>

\* register(data) up to its await.
register(k, u) == AuthCallStart(k, "register", u)

\* register after its await: in mock mode mockRegister stores the new user as
\* the current one and setUser(newUser) follows; in Supabase mode the user is
\* not set, the e-mail address is to be verified first.
RegisterResolve(k, out) ==
  /\ authCalls[k].fn = "register" /\ authCalls[k].pc = "sent"
  /\ IF out = "ok"
     THEN IF authCalls[k].mock
          THEN /\ session' = [session EXCEPT !.mock = authCalls[k].value]
               /\ auth' = [auth EXCEPT !.user = authCalls[k].value, !.isLoading = FALSE]
               /\ authLast' = [step |-> "register", setBy |-> "register"]
          ELSE /\ auth' = [auth EXCEPT !.isLoading = FALSE]
               /\ authLast' = [authLast EXCEPT !.step = "register"]
               /\ UNCHANGED session
     ELSE /\ auth' = [auth EXCEPT !.error = "Failed to register", !.isLoading = FALSE]
          /\ authLast' = [authLast EXCEPT !.step = "register"]
          /\ UNCHANGED session
  /\ authCalls' = [authCalls EXCEPT ![k] = NoAuthCall]
  /\ UNCHANGED <<clientVars, storeVars, chatVars, hookVars>>

\* logout() up to its await.
logout(k) == AuthCallStart(k, "logout", Null)

\* logout after its await: the session is gone and setUser(null) follows, or
\* the service threw and setError follows.
LogoutResolve(k, out) ==
  /\ authCalls[k].fn = "logout" /\ authCalls[k].pc = "sent"
  /\ IF out = "ok"
     THEN /\ session' = IF authCalls[k].mock
                        THEN [session EXCEPT !.mock = Null]
                        ELSE [session EXCEPT !.supabase = Null]
          /\ auth' = [auth EXCEPT !.user = Null, !.isLoading = FALSE]
          /\ authLast' = [step |-> "logout", setBy |-> "logout"]
     ELSE /\ auth' = [auth EXCEPT !.error = "Failed to logout", !.isLoading = FALSE]
          /\ authLast' = [authLast EXCEPT !.step = "logout"]
          /\ UNCHANGED session
  /\ authCalls' = [authCalls EXCEPT ![k] = NoAuthCall]
  /\ UNCHANGED <<clientVars, storeVars, chatVars, hookVars>>

\* updateProfile(data) up to its await; the function keeps the user of the
\* render that made it.
updateProfile(k) == AuthCallStart(k, "updateProfile", auth.user)

\* updateProfile after its await: if (user) setUser({...user, ...}) with the
\* user it kept, or setError and the error thrown on.
UpdateProfileResolve(k, out) ==
  /\ authCalls[k].fn = "updateProfile" /\ authCalls[k].pc = "sent"
  /\ IF out = "ok"
     THEN IF authCalls[k].value # Null
          THEN /\ auth' = [auth EXCEPT !.user = authCalls[k].value, !.isLoading = FALSE]
               /\ authLast' = [step |-> "updateProfile", setBy |-> "updateProfile"]
          ELSE /\ auth' = [auth EXCEPT !.isLoading = FALSE]
               /\ authLast' = [authLast EXCEPT !.step = "updateProfile"]
     ELSE /\ auth' = [auth EXCEPT !.error = "Failed to update profile",
                                  !.isLoading = FALSE]
          /\ authLast' = [authLast EXCEPT !.step = "updateProfile"]
  /\ authCalls' = [authCalls EXCEPT ![k] = NoAuthCall]
  /\ UNCHANGED <<session, clientVars, storeVars, chatVars, hookVars>>

\* resetAuthState(): setUser(null), setError(null), setIsLoading(false).
resetAuthState ==
  /\ auth' = [auth EXCEPT !.user = Null, !.error = Null, !.isLoading = FALSE]
  /\ authLast' = [step |-> "resetAuthState", setBy |-> "resetAuthState"]
  /\ UNCHANGED <<session, authCalls, clientVars, storeVars, chatVars, hookVars>>

\* The provider is mounted in Supabase mode on a browser that may hold a
\* session of an earlier visit: the effect has called loadUser, which waits for
\* getCurrentUser.
AuthInit ==
  /\ auth = NoAuth
  /\ session \in [supabase : Users \cup {Null}, mock : {"u1", Null}]
  /\ authCalls = [k \in AuthSlots |->
        IF k = 1 THEN [NoAuthCall EXCEPT !.fn = "loadUser", !.pc = "sent"]
        ELSE NoAuthCall]
  /\ authLast = [step |-> "loadUser", setBy |-> "none"]
  /\ sn = NoHook /\ snCalls = NoHookCalls /\ picked = NoPick
  /\ ClientUnused /\ ChatUnused
  /\ creds = {} /\ authUid = "u1" /\ nextId = 1 /\ last = NoOp

AuthNext ==
  \/ \E k \in AuthSlots, out \in Outs : LoadUserRead(k, out)
  \/ \E k \in AuthSlots : LoadUserResolve(k)
  \/ \E value \in BOOLEAN : toggleMockAuth(value)
  \/ \E k \in AuthSlots, u \in Users : login(k, u)
  \/ \E k \in AuthSlots, out \in Outs : LoginResolve(k, out)
  \/ \E k \in AuthSlots, u \in Users : register(k, u)
  \/ \E k \in AuthSlots, out \in Outs : RegisterResolve(k, out)
  \/ \E k \in AuthSlots : logout(k)
  \/ \E k \in AuthSlots, out \in Outs : LogoutResolve(k, out)
  \/ \E k \in AuthSlots : updateProfile(k)
  \/ \E k \in AuthSlots, out \in Outs : UpdateProfileResolve(k, out)
  \/ resetAuthState



(***************************************************************************)
(* useServiceNow({ autoConnect: true }) as ChatInterface uses it: the      *)
(* state of the hook, its two effects, connect and disconnect, and the     *)
(* effect of ChatInterface that calls connect(selectedCredentialId).  The  *)
(* user of the context stays the same, so that the effect that connects    *)
(* and the one of ChatInterface both run when, and only when, a render     *)
(* shows another selectedCredentialId, and each calls connect if it is not *)
(* null.                                                                   *)
(***************************************************************************)
RECURSIVE ConnectsTo(_, _)
ConnectsTo(conn, n) == IF n = 0 THEN 0 ELSE conn[n] + ConnectsTo(conn, n - 1)

\* The connect calls in flight.
InFlight(conn) == ConnectsTo(conn, NumCreds)

\* The effects that follow a render in which selectedCredentialId went from
\* was to sel: connectToServiceNow() of the hook and connect(sel) of
\* ChatInterface.
EffectsRun(was, sel) == sel # was /\ sel # NoCred

AfterEffects(was, sel, conn) ==
  IF EffectsRun(was, sel) THEN [conn EXCEPT ![sel] = @ + 2] ELSE conn

\* The state after the render and its effects: connect begins with
\* setIsLoading(true) and setError(null).
AfterRender(was, h) ==
  IF EffectsRun(was, h.selectedCredentialId)
  THEN [h EXCEPT !.isLoading = TRUE, !.error = Null]
  ELSE h

\* setSelectedCredentialId(k): the user chooses a credential of the list.
setSelectedCredentialId(k) ==
  /\ k \in sn.credentials
  /\ InFlight(AfterEffects(sn.selectedCredentialId, k, snCalls.connect)) <= MaxConnects
  /\ sn' = AfterRender(sn.selectedCredentialId, [sn EXCEPT !.selectedCredentialId = k])
  /\ snCalls' = [snCalls EXCEPT
                   !.connect = AfterEffects(sn.selectedCredentialId, k, @)]
  /\ picked' = [picked EXCEPT !.id = k]
  /\ UNCHANGED <<clientVars, storeVars, chatVars, authVars>>

\* connect(k) after its awaits: getServiceNowClient(k, user.id) gave a client
\* and testConnection() true, then setClient(newClient) and
\* setSelectedCredentialId(k) follow, or one of them failed and setError
\* follows; setIsLoading(false) in both cases.
ConnectSettle(k, out, connected) ==
  LET got  == GetClientOutcome(out, Cardinality(Matching(k, auth.user)))
      rest == [snCalls.connect EXCEPT ![k] = @ - 1]
      was  == sn.selectedCredentialId
  IN
  /\ snCalls.connect[k] > 0
  /\ IF got = "client" /\ connected = "ok"
     THEN /\ InFlight(AfterEffects(was, k, rest)) <= MaxConnects
          /\ sn' = AfterRender(was, [sn EXCEPT !.client = k,
                                               !.selectedCredentialId = k,
                                               !.isLoading = FALSE])
          /\ snCalls' = [snCalls EXCEPT !.connect = AfterEffects(was, k, rest)]
          /\ UNCHANGED picked
     ELSE /\ sn' = [sn EXCEPT !.error = "Failed to connect to ServiceNow",
                              !.isLoading = FALSE]
          /\ snCalls' = [snCalls EXCEPT !.connect = rest]
          /\ picked' = [picked EXCEPT !.failed = TRUE]
  /\ UNCHANGED <<clientVars, storeVars, chatVars, authVars>>

\* getServiceNowCredentials(userId): the rows of the user the session may see.
getServiceNowCredentials(userId) ==
  {r.id : r \in {x \in creds : x.user_id = userId /\ RLSVisible(x)}}

\* loadCredentials after its await: setCredentials(creds), and
\* setSelectedCredentialId(creds[0].id) if the render that made it had no
\* selection; first is creds[0], any row since the select is not ordered.  An
\* error of the request becomes setError.
LoadCredentialsResolve(sel, out, first) ==
  LET list == getServiceNowCredentials(auth.user)
      was  == sn.selectedCredentialId
      now_ == IF sel = NoCred /\ list # {} THEN first ELSE was
  IN
  /\ sel \in snCalls.load
  /\ IF out = "ok"
     THEN /\ list # {} => first \in list
          /\ list = {} => first = NoCred
          /\ InFlight(AfterEffects(was, now_, snCalls.connect)) <= MaxConnects
          /\ sn' = AfterRender(was, [sn EXCEPT !.credentials = list,
                                               !.selectedCredentialId = now_])
          /\ snCalls' = [connect |-> AfterEffects(was, now_, snCalls.connect),
                         load |-> snCalls.load \ {sel}]
     ELSE /\ first = NoCred
          /\ sn' = [sn EXCEPT !.error = "Failed to load ServiceNow credentials"]
          /\ snCalls' = [snCalls EXCEPT !.load = @ \ {sel}]
  /\ UNCHANGED <<picked, clientVars, storeVars, chatVars, authVars>>

\* disconnect(): setClient(null), setSelectedCredentialId(null).
disconnect ==
  /\ sn' = [sn EXCEPT !.client = NoCred, !.selectedCredentialId = NoCred]
  /\ picked' = [picked EXCEPT !.id = NoCred]
  /\ UNCHANGED <<snCalls, clientVars, storeVars, chatVars, authVars>>

\* The names of the stored credentials, one for each.
CredNameOf == <<"n1", "n2", "n3">>

\* ChatInterface is mounted for the signed-in user u1, who has stored NumCreds
\* credentials: the effect on [user] has called loadCredentials, which waits
\* for getServiceNowCredentials, and no credential is selected.
HookInit ==
  /\ auth = [NoAuth EXCEPT !.user = "u1", !.isLoading = FALSE]
  /\ session = [NoSession EXCEPT !.supabase = "u1"]
  /\ authCalls = [k \in AuthSlots |-> NoAuthCall]
  /\ authLast = [step |-> "loadUser", setBy |-> "loadUser"]
  /\ sn = NoHook
  /\ snCalls = [NoHookCalls EXCEPT !.load = {NoCred}]
  /\ picked = NoPick
  /\ creds = {NewRow(k, "u1", CredNameOf[k], "https://a", "admin", "p1") : k \in CredIds}
  /\ authUid = "u1" /\ nextId = NumCreds + 1 /\ last = NoOp
  /\ ClientUnused /\ ChatUnused

HookNext ==
  \/ \E k \in CredIds : setSelectedCredentialId(k)
  \/ \E k \in CredIds, o \in TwoOuts : ConnectSettle(k, o[1], o[2])
  \/ \E sel \in CredIds \cup {NoCred}, out \in Outs, first \in CredIds \cup {NoCred} :
        LoadCredentialsResolve(sel, out, first)
  \/ disconnect

\* While the client is studied the store is left alone, and conversely.
StoreUnused == creds = {} /\ authUid = "u1" /\ nextId = 1 /\ last = NoOp

Init == ClientInit /\ StoreUnused /\ ChatUnused /\ UiUnused

\* One client used by a caller that makes one public call at a time.
Next ==
  \/ \E c \in Calls, op \in Ops : SeqStart(c, op)
  \/ \E c \in Calls, o \in VerifyOutcomes : VerifyResp(c, o)
  \/ \E c \in Calls : AuthDone(c)
  \/ \E c \in Calls, r \in Responses : ReqResp(c, r)
  \/ \E c \in Calls : Return(c)
  \/ Tick

Spec == Init /\ [][Next]_vars

\* One client shared by callers whose public calls overlap.  One operation
\* that goes straight to request() and testConnection stand for the seven, and
\* one response for each way request() and the verification call can end: the
\* result, the retry, an error (a transport failure ends as an error does).
RaceOps == {"getRecord", "testConnection"}

RaceResponses ==
  {[status |-> 200, body |-> "json"], [status |-> 401, body |-> "none"],
   [status |-> 500, body |-> "json"]}

RaceVerifyOutcomes == {"ok", "rejected"}

(***************************************************************************)
(* The client as overlapping calls find it, an hour after its creation:    *)
(* it has never authenticated, or it holds the token of an authenticate    *)
(* made at the start (now expired: now = tokenExpiry) or just now (fresh), *)
(* whose verification call succeeded.  The clock does not step             *)
(* while calls are in flight, and each slot carries one call: the calls    *)
(* that came before are in the state the client starts in.                 *)
(***************************************************************************)
RaceInit ==
  /\ username = "admin" /\ password = "secret"
  /\ now = TokenTTL
  /\ \/ accessToken = Null /\ tokenExpiry = 0 /\ verified = FALSE
     \/ /\ accessToken = encodedCredentials(username, password)
        /\ tokenExpiry \in {TokenTTL, now + TokenTTL}
        /\ verified = TRUE
  /\ calls = [c \in Calls |-> IdleCall]
  /\ windowVerifs = IF accessToken # Null /\ now < tokenExpiry THEN 1 ELSE 0
  /\ StoreUnused /\ ChatUnused /\ UiUnused

\* The slots are alike: a new call takes the first one that is free.
RaceStart(c, op) ==
  /\ \A d \in Calls : d < c => calls[d].pc # "idle"
  /\ Start(c, op)

RaceNext ==
  \/ \E c \in Calls, op \in RaceOps : RaceStart(c, op)
  \/ \E c \in Calls, o \in RaceVerifyOutcomes : VerifyResp(c, o)
  \/ \E c \in Calls : AuthDone(c)
  \/ \E c \in Calls, r \in RaceResponses : ReqResp(c, r)

RaceSpec == RaceInit /\ [][RaceNext]_vars

StoreSpec == StoreInit /\ [][StoreNext]_vars

ChatSpec == ChatInit /\ [][ChatNext]_vars

MessagesSpec == ChatInit /\ [][MessagesNext]_vars

TitlesSpec == ChatInit /\ [][TitlesNext]_vars

AuthSpec == AuthInit /\ [][AuthNext]_vars

HookSpec == HookInit /\ [][HookNext]_vars

(***************************************************************************)
(* The client with the scheduling the code guarantees: a continuation that *)
(* is ready runs (the event loop is fair to it).  Nothing in               *)
(* servicenow.ts arms a timer or passes a signal to fetch, so no step is   *)
(* guaranteed while a fetch is pending: whether VerifyResp or ReqResp      *)
(* happens is the server's choice.                                         *)
(***************************************************************************)
LiveSpec ==
  /\ Init /\ [][Next]_vars
  /\ WF_vars(\E c \in Calls : AuthDone(c))
  /\ WF_vars(\E c \in Calls : Return(c))

(***************************************************************************)
(* The client when every HTTP request it sends is answered: besides the    *)
(* continuations that are ready, the verification call and the substantive *)
(* request each get some response.                                         *)
(***************************************************************************)
ResponsiveSpec ==
  /\ Init /\ [][Next]_vars
  /\ WF_vars(\E c \in Calls : AuthDone(c))
  /\ WF_vars(\E c \in Calls : Return(c))
  /\ WF_vars(\E c \in Calls, o \in VerifyOutcomes : VerifyResp(c, o))
  /\ WF_vars(\E c \in Calls, r \in Responses : ReqResp(c, r))

(***************************************************************************)
(* Properties of the API client.                                           *)
(***************************************************************************)

\* C1: a public call sends its substantive request at most twice: after a 401
\* on the first attempt and a 401 on the retry it throws and does not retry again.
C1_AtMostTwoSends ==
  \A c \in Calls : calls[c].sends <= 2

\* C2: when the first substantive request of a call got 401 and the retried
\* request succeeded, the call returns that result without an error, having
\* re-authenticated once (one new verification call) and re-sent exactly once.
C2_RetryAfter401Succeeds ==
  \A c \in Calls :
    (calls[c].pc = "done" /\ calls[c].n401 = 1 /\ calls[c].lastResp = "ok") =>
       /\ calls[c].result \in {"ok", "true"}
       /\ calls[c].sends = 2
       /\ calls[c].verifs = calls[c].verifsAtFirstSend + 1

\* C2 witness: a call of an Authenticated client (its authenticate used the
\* cache) got one 401, was retried and returned the retried result.
C2_Witness ==
  \E c \in Calls :
    /\ calls[c].pc = "done" /\ calls[c].op = "queryRecords"
    /\ calls[c].verifsAtFirstSend = 0
    /\ calls[c].n401 = 1 /\ calls[c].sends = 2
    /\ calls[c].lastResp = "ok" /\ calls[c].result = "ok"

\* C3: when the verification call of authenticate fails, no token and no expiry
\* stay cached.
C3_FailedVerifyLeavesNoToken ==
  \A c \in Calls :
    (calls[c].pc = "done" /\ calls[c].authFailed /\ calls[c].verifs > 0) =>
       (accessToken = Null /\ tokenExpiry = 0)

\* C4: inside one cache window (from the creation of a token until it is
\* cleared or now reaches its expiry) at most one verification call is issued,
\* however many times authenticate is called.
C4_OneVerificationPerWindow ==
  windowVerifs <= 1

\* C4 witness: a call whose authenticate ran inside the window of a token that
\* an earlier authenticate created: it issued no verification call of its own.
C4_Witness ==
  \E c \in Calls :
    /\ calls[c].pc = "reqWait" /\ calls[c].verifs = 0
    /\ username # "" /\ password # ""
    /\ InCacheWindow(accessToken, tokenExpiry)
    /\ windowVerifs = 1

\* C5: a public call made after the cached token's expiry has passed
\* re-authenticates exactly once before its substantive request is sent: one
\* verification call, a new token and the expiry an hour from now.
C5_ExpiryTriggersOneReauth ==
  \A c \in Calls :
    (calls[c].startExpired /\ calls[c].sends >= 1) =>
       /\ calls[c].verifsAtFirstSend = 1
       /\ (calls[c].pc = "reqWait" /\ calls[c].sends = 1) =>
             (accessToken = btoa(username, password) /\ tokenExpiry = now + TokenTTL)

\* C5 witness: a call that began with an expired token has its first
\* substantive request in flight.
C5_Witness ==
  \E c \in Calls :
    calls[c].startExpired /\ calls[c].pc = "reqWait" /\ calls[c].sends = 1

\* C6: testConnection never throws; it returns false after any authentication
\* or transport failure, and true only when authenticate did not fail and the
\* list call succeeded.
C6_TestConnectionNeverThrows ==
  \A c \in Calls :
    (calls[c].op = "testConnection" /\ calls[c].pc = "done") =>
       /\ calls[c].result \in {"true", "false"}
       /\ (calls[c].result = "true") =>
             (~ calls[c].authFailed /\ calls[c].sends >= 1 /\ calls[c].lastResp = "ok")
       /\ (calls[c].authFailed \/ calls[c].netFailed \/ calls[c].lastResp = "fail") =>
             calls[c].result = "false"

\* C6 witness: a testConnection ended after a failed authentication or a
\* transport failure.
C6_Witness ==
  \E c \in Calls :
    /\ calls[c].op = "testConnection" /\ calls[c].pc = "done"
    /\ (calls[c].authFailed \/ calls[c].netFailed)
    /\ calls[c].result = "false"

(***************************************************************************)
(* Properties of the credential store.                                     *)
(***************************************************************************)

\* C7: a saveServiceNowCredential call whose owner id is not the session's user
\* throws the ownership-mismatch error and stores no row for that owner.
C7_MismatchedSaveStoresNothing ==
  (last.op = "save" /\ last.owner # authUid) =>
     /\ last.result = "threw"
     /\ ~ \E r \in creds : r.id = last.id /\ r.user_id = last.owner

\* C8: update and delete called with (id, owner) leave every row whose id or
\* owner differs as it was, and every row they change or add has that id and owner.
C8_ScopedMutation ==
  [][ (last'.op \in {"update", "delete"}) =>
        /\ \A r \in creds :
              (r.id # last'.id \/ r.user_id # last'.owner) => r \in creds'
        /\ \A r \in creds' \ creds :
              r.id = last'.id /\ r.user_id = last'.owner ]_vars

\* C8 witness: a delete was called with the id of a row that belongs to another
\* owner than the one passed; the row is still there.
C8_Witness ==
  /\ last.op = "delete" /\ last.result = "returned"
  /\ \E r \in creds : r.id = last.id /\ r.user_id # last.owner

\* C9: getServiceNowClient never throws; it returns null when no row matches the
\* id/owner pair or the lookup fails, and a client only when exactly one row
\* matches, built from that row.
C9_GetClientNullOrClient ==
  (last.op = "getClient") =>
     LET rows == {r \in creds : r.id = last.id /\ r.user_id = last.owner}
     IN /\ last.result \in {"client", "null"}
        /\ (rows = {} \/ last.err = "lookup") => last.result = "null"
        /\ (last.result = "client") =>
              /\ Cardinality(rows) = 1
              /\ \A r \in rows : last.client = ClientOf(r)

\* C9 witness: a lookup that worked found no row for the id/owner pair, although
\* a row with that id exists, and null was returned.
C9_Witness ==
  /\ last.op = "getClient" /\ last.err = "none" /\ last.result = "null"
  /\ \E r \in creds : r.id = last.id /\ r.user_id # last.owner

\* C10: an update keeps, in every row, the stored value of each field its
\* updates omit (key absent or undefined), the password included, and drops no row.
C10_OmittedFieldsKept ==
  [][ (last'.op = "update") =>
        \A r \in creds :
           \E n \in creds' :
              /\ n.id = r.id
              /\ \A f \in last'.omitted : n[f] = r[f] ]_vars

\* C10 witness: an update with the password undefined or absent and a new name
\* went through on a row whose password is not empty.
C10_Witness ==
  /\ last.op = "update" /\ last.result = "returned"
  /\ "password" \in last.omitted /\ "name" \notin last.omitted
  /\ \E r \in creds : r.id = last.id /\ r.name = "n2" /\ r.password = "p1"

\* C13: saveServiceNowCredential attempts the direct insert only if the
\* privileged insert (the RPC) did not store the row: when the RPC stored the
\* row, no second insert is attempted.
C13_DirectInsertOnlyIfRpcDidNotStore ==
  (last.op = "save" /\ last.rpcStored) => ~ last.directTried

(***************************************************************************)
(* Properties of the client's requests and errors.                         *)
(***************************************************************************)

\* C15: when the upstream request of getRecord is answered HTTP 404, the error
\* getRecord throws to its caller carries status 404.
C15_GetRecord404CarriesStatus ==
  \A c \in Calls :
    (calls[c].pc = "done" /\ calls[c].op = "getRecord" /\ calls[c].httpStatus = 404) =>
       (calls[c].result = "throw" /\ calls[c].surfaced = 404)

\* The names of the parameters of a query string.
ParamNames(params) == {params[i][1] : i \in DOMAIN params}

\* C16: the query string queryRecords builds has sysparm_query exactly when a
\* non-empty filter is given, and with limit=10, offset=0 it has
\* sysparm_limit=10 and sysparm_offset=0 (each once).
C16_QueryStringOfQueryRecords ==
  \A c \in Calls :
    (calls[c].op = "queryRecords") =>
       LET o      == calls[c].endpoint.options
           params == calls[c].endpoint.params
       IN  /\ ("sysparm_query" \in ParamNames(params)) <=> (o.query \notin {Undef, ""})
           /\ (o.query \notin {Undef, ""}) =>
                 \E i \in DOMAIN params : params[i] = <<"sysparm_query", o.query>>
           /\ (o.limit = <<10>> /\ o.offset = <<0>>) =>
                 /\ \E i \in DOMAIN params : params[i] = <<"sysparm_limit", toString(10)>>
                 /\ \E i \in DOMAIN params : params[i] = <<"sysparm_offset", toString(0)>>
                 /\ Cardinality({i \in DOMAIN params :
                                   params[i][1] \in {"sysparm_limit", "sysparm_offset"}}) = 2

\* C16 witness: the request of a queryRecords call with limit=10, offset=0 and
\* the empty string as filter is in flight.
C16_Witness ==
  \E c \in Calls :
    /\ calls[c].op = "queryRecords" /\ calls[c].pc = "reqWait"
    /\ calls[c].endpoint.options.query = ""
    /\ calls[c].endpoint.options.limit = <<10>>
    /\ calls[c].endpoint.options.offset = <<0>>
    /\ Len(calls[c].endpoint.params) = 2

\* The substantive request of call c was sent once and failed, not with HTTP 401.
FailedNot401(c) ==
  /\ calls[c].sends = 1
  /\ calls[c].lastResp = "fail" /\ calls[c].httpStatus # 401

\* C18 (as stated): a public operation whose substantive request fails with
\* anything other than HTTP 401 sends it exactly once and throws to the caller,
\* with no retry and no re-authentication: once the first request has failed
\* so, the call has ended by throwing.
C18_Not401FailureThrowsUnretried ==
  \A c \in Calls :
    FailedNot401(c) =>
       /\ calls[c].pc = "done"
       /\ calls[c].verifs = calls[c].verifsAtFirstSend
       /\ calls[c].result = "throw"

\* C18 (amended): such an operation sends the request exactly once, with no
\* retry and no re-authentication, and fails to its caller: once the first
\* request has failed so, the call has ended, by throwing, except
\* testConnection, which returns false.
C18_Not401FailureFailsUnretried ==
  \A c \in Calls :
    FailedNot401(c) =>
       /\ calls[c].pc = "done"
       /\ calls[c].verifs = calls[c].verifsAtFirstSend
       /\ calls[c].result = IF calls[c].op = "testConnection" THEN "false" ELSE "throw"

\* C18 witness: a call ended after its only request was answered HTTP 500 with
\* a null body (the thrown value carries status 500).
C18_Witness ==
  \E c \in Calls :
    /\ FailedNot401(c) /\ calls[c].httpStatus = 500 /\ calls[c].errStatus = 500
    /\ calls[c].op = "updateRecord" /\ calls[c].result = "throw"

\* C19: every outbound HTTP call of the client is bounded by a timeout: a
\* verification call or substantive request whose server never responds is
\* eventually aborted (the call does not stay pending forever).
C19_PendingFetchEnds ==
  \A c \in Calls :
    (calls[c].pc \in {"verifyWait", "reqWait"}) ~> (calls[c].pc \notin {"verifyWait", "reqWait"})

(***************************************************************************)
(* Properties of chat persistence.                                         *)
(***************************************************************************)

\* What a message says, apart from its id (the store assigns its own ids).
Body(m) ==
  [content |-> m.content, sender |-> m.sender, timestamp |-> m.timestamp,
   codeSnippets |-> m.codeSnippets]

MessageBodies(ms) == [i \in DOMAIN ms |-> Body(ms[i])]

\* A step in which getConversationWithMessages returns the conversation that
\* the saveConversation call just before it created.
GetAfterSave ==
  /\ chatLast.op = "saveConversation" /\ chatLast.ret = "id"
  /\ chatLast'.op = "getConversationWithMessages" /\ chatLast'.id = chatLast.retId
  /\ chatLast'.ret = "conversation"

\* C11 (as stated): saveConversation(owner, title, [m1, m2]) followed by
\* getConversationWithMessages(id) returns the messages [m1, m2] in the original
\* order with their timestamps, whatever the order or equality of the timestamps.
C11_RoundTripKeepsOrder ==
  [][ GetAfterSave => MessageBodies(chatLast'.list) = MessageBodies(chatLast.msgsIn) ]_vars

\* C11 (amended): the messages returned are the messages saved, each once, with
\* content, sender, timestamp and code snippets preserved, ordered by timestamp
\* ascending; they are in the original order when the timestamps of the list
\* strictly increase.
C11_RoundTripSortedByTimestamp ==
  [][ GetAfterSave =>
        LET got  == MessageBodies(chatLast'.list)
            sent == MessageBodies(chatLast.msgsIn)
        IN  /\ Len(got) = Len(sent)
            /\ \A i \in DOMAIN sent :
                  Cardinality({j \in DOMAIN got : got[j] = sent[i]}) = 1
            /\ \A i, j \in DOMAIN got : i < j => got[i].timestamp <= got[j].timestamp
            /\ (\A i, j \in DOMAIN sent : i < j => sent[i].timestamp < sent[j].timestamp)
                  => got = sent ]_vars

\* C11 witness: a conversation was returned with its two messages, whose
\* timestamps increase, in the order they were saved in.
C11_Witness ==
  /\ chatLast.op = "getConversationWithMessages" /\ chatLast.ret = "conversation"
  /\ Len(chatLast.list) = 2
  /\ Body(chatLast.list[1]) = Body(ChatMessage(1, 1))
  /\ Body(chatLast.list[2]) = Body(ChatMessage(2, 2))

\* C12 (as stated): after a deleteConversation(id) that reported success the
\* conversation row and every message row referencing it are gone.
C12_DeleteRemovesRows ==
  (chatLast.op = "deleteConversation" /\ chatLast.ret = "true") =>
     /\ ~ \E c \in conversations : c.id = chatLast.id
     /\ ~ \E m \in messages : m.conversation_id = chatLast.id

\* C12 (amended): after deleteConversation(id) returned true, no conversation
\* row with that id and no message row referencing it is left that the calling
\* session can reach (a conversation of the session's user is gone; another
\* user's is untouched), and a getConversationWithMessages(id) made next in that
\* session returns null.
C12_DeleteTrueRemovesOwnRows ==
  [][ /\ (chatLast'.op = "deleteConversation" /\ chatLast'.ret = "true") =>
           /\ ~ \E c \in conversations' : c.id = chatLast'.id /\ c.user_id = authUid'
           /\ ~ \E m \in messages' :
                   /\ m.conversation_id = chatLast'.id
                   /\ \E c \in conversations' : c.id = m.conversation_id /\ c.user_id = authUid'
           /\ \A c \in conversations \ conversations' : c.id = chatLast'.id /\ c.user_id = authUid
      /\ (/\ chatLast.op = "deleteConversation" /\ chatLast.ret = "true"
          /\ chatLast'.op = "getConversationWithMessages" /\ chatLast'.id = chatLast.id)
           => chatLast'.ret = "null" ]_vars

\* C12 witness: a deleteConversation returned true for a conversation that had
\* been created, and its rows are gone.
C12_Witness ==
  /\ chatLast.op = "deleteConversation" /\ chatLast.ret = "true"
  /\ chatLast.id < nextConvId
  /\ ~ \E c \in conversations : c.id = chatLast.id
  /\ ~ \E m \in messages : m.conversation_id = chatLast.id

ChatReads == {"getConversations", "getConversationWithMessages"}

ChatWrites == {"saveConversation", "updateConversationTitle", "deleteConversation"}

\* C14: on a store failure every read operation returns a null or empty
\* sentinel without throwing, and every write operation throws.
C14_ReadsDegradeWritesThrow ==
  chatLast.failed =>
     /\ (chatLast.op \in ChatReads) =>
           (chatLast.ret \in {"null", "list"} /\ chatLast.list = <<>>)
     /\ (chatLast.op \in ChatWrites) => chatLast.ret = "threw"

\* C17: when the insert of the messages fails after the conversation was
\* inserted, saveConversation reports the failure (returns null) and the new
\* conversation row stays in the store with no message.
C17_OrphanedConversation ==
  (chatLast.op = "saveConversation" /\ chatLast.failed /\ chatLast.id # 0) =>
     /\ chatLast.ret = "null"
     /\ \E c \in conversations : c.id = chatLast.id /\ c.user_id = chatLast.owner
     /\ ~ \E m \in messages : m.conversation_id = chatLast.id

\* C17 witness: a saveConversation whose conversation insert went through lost
\* its two messages to a store failure.
C17_Witness ==
  /\ chatLast.op = "saveConversation" /\ chatLast.failed /\ chatLast.id # 0
  /\ Len(chatLast.msgsIn) = MaxMsgs
  /\ \E c \in conversations : c.id = chatLast.id

\* The conversation whose title the call just before this step changed, if the
\* step is a getConversations of its owner.
JustRetitled ==
  {c \in conversations :
     /\ chatLast.op = "updateConversationTitle" /\ chatLast.ret = "true"
     /\ c.id = chatLast.id /\ c.user_id = chatLast'.owner}

\* C20 (as stated): getConversations(owner), made in the owner's session and
\* meeting no store failure, returns exactly the owner's conversations ordered
\* by updated timestamp descending, so a conversation whose title was just
\* changed by a successful updateConversationTitle comes first.
C20_RetitledComesFirst ==
  [][ (chatLast'.op = "getConversations" /\ ~ chatLast'.failed /\ chatLast'.owner = authUid) =>
        LET got == chatLast'.list
        IN  /\ {got[i].id : i \in DOMAIN got} =
                  {c.id : c \in {d \in conversations : d.user_id = chatLast'.owner}}
            /\ \A i, j \in DOMAIN got : i < j => got[i].updatedAt >= got[j].updatedAt
            /\ \A c \in JustRetitled : got # <<>> /\ got[1].id = c.id ]_vars

\* C20 (amended): a getConversations(owner) that meets no store failure returns
\* exactly the conversations of owner that the session may read (all of them in
\* the owner's own session), each once, ordered by updated timestamp descending
\* with equal timestamps in either order; a conversation whose title was just
\* changed comes first when its updated timestamp is later than every other's.
C20_OrderedByUpdatedDescending ==
  [][ (chatLast'.op = "getConversations" /\ ~ chatLast'.failed) =>
        LET got  == chatLast'.list
            rows == {c \in conversations :
                       c.user_id = chatLast'.owner /\ c.user_id = authUid}
        IN  /\ {got[i] : i \in DOMAIN got} = {ConversationOf(c) : c \in rows}
            /\ Len(got) = Cardinality(rows)
            /\ \A i, j \in DOMAIN got : i < j => got[i].updatedAt >= got[j].updatedAt
            /\ \A c \in JustRetitled :
                  (c.user_id = authUid /\
                   \A d \in rows \ {c} : d.updated_at < c.updated_at)
                     => got[1].id = c.id ]_vars

\* C20 witness: the owner's two conversations were returned, the one created
\* first ahead of the other because its title was changed later.
C20_Witness ==
  /\ chatLast.op = "getConversations" /\ ~ chatLast.failed
  /\ Len(chatLast.list) = 2
  /\ chatLast.list[1].id = 1 /\ chatLast.list[1].title = "t2"
  /\ chatLast.list[1].updatedAt > chatLast.list[2].updatedAt

(***************************************************************************)
(* Properties of the client: termination, errors and overlapping calls.    *)
(***************************************************************************)

\* C21: every public operation terminates (returns or throws) whatever the
\* server answers, when every HTTP request receives a response: a call that has
\* begun eventually ends, also when each verification call succeeds and each
\* substantive request is answered HTTP 401.
C21_EveryCallTerminates ==
  \A c \in Calls : (calls[c].pc \notin {"idle", "done"}) ~> (calls[c].pc = "done")

\* C22: for every non-2xx HTTP response the error request() raises is a
\* structured value that carries the status of that response, whether its body
\* is JSON, text that is not JSON, or missing.
C22_ErrorCarriesResponseStatus ==
  \A c \in Calls :
    (calls[c].lastResp = "fail" /\ calls[c].httpStatus \notin {0, 200}) =>
       calls[c].errStatus = calls[c].httpStatus

\* What a finished call hands to its caller, as a call that runs alone does:
\* the result follows from the responses the call itself received, each request
\* it sent carried the encoded credentials, and it issued at most one
\* verification call for its first request and one for each retry.
SequentialOutcome(rec) ==
  LET succeeded == ~ rec.authFailed /\ rec.sends >= 1 /\ rec.lastResp = "ok"
  IN  /\ rec.result = IF rec.op = "testConnection"
                      THEN (IF succeeded THEN "true" ELSE "false")
                      ELSE (IF succeeded THEN "ok" ELSE "throw")
      /\ rec.sends >= 1 => rec.hdrToken = btoa(username, password)
      /\ rec.authFailed => rec.lastResp # "ok"
      /\ rec.verifs <= rec.n401 + 1

\* C23: calls that overlap on one client race on the token harmlessly: under
\* every interleaving the token, whenever it is set, is the encoding of the
\* client's username:password, and every finished call has the outcome of a
\* call in a sequential execution.
C23_RaceIsBenign ==
  /\ (accessToken = Null \/ accessToken = btoa(username, password))
  /\ \A c \in Calls : calls[c].pc = "done" => SequentialOutcome(calls[c])

\* C23 witness: a call that began with an expired token has set the new token
\* and awaits its verification call, while a second call, begun after it, found
\* that token in the cache and has its request in flight.
C23_Witness ==
  \E c, d \in Calls :
    /\ c # d
    /\ calls[c].startExpired /\ calls[c].pc = "verifyWait"
    /\ ~ calls[d].startExpired /\ calls[d].verifs = 0 /\ calls[d].pc = "reqWait"
    /\ accessToken = btoa(username, password)

\* C25: a client never dispatches a substantive request with a token for which
\* no verification call has completed successfully.
C25_RequestsCarryVerifiedToken ==
  \A c \in Calls : calls[c].pc = "reqWait" => verified

\* C26: every substantive request a client dispatches carries an Authorization
\* value built from a token that is not null, under any interleaving of the
\* calls on the client, also when another call's 401 handler cleared the token
\* between this call's authenticate and the construction of its headers.
C26_AuthorizationFromToken ==
  \A c \in Calls : calls[c].sends >= 1 => calls[c].hdrToken # Null

\* C26 witness: a request is in flight whose headers were built after another
\* call's 401 handler had cleared the token, the authenticate of this call
\* having returned before; it carries the encoded credentials.
C26_Witness ==
  \E c \in Calls :
    /\ calls[c].pc = "reqWait" /\ calls[c].cleared
    /\ calls[c].hdrToken = btoa(username, password)

(***************************************************************************)
(* Properties of the credential store: empty passwords and failed saves.   *)
(***************************************************************************)

\* Every row keeps its password over the step.
PasswordsKept ==
  \A r \in creds : \E n \in creds' : n.id = r.id /\ n.password = r.password

\* C24 (as stated): an update of a credential with an explicitly empty password
\* string, given to the settings form or to updateServiceNowCredential, is
\* treated as an update that omits the password: the stored password is kept.
C24_EmptyPasswordKeepsStored ==
  [][ (last'.op = "update" /\ (last'.emptyPassword \/ last'.formEmpty)) => PasswordsKept ]_vars

\* C24 (amended): an update made through handleUpdateCredential with the
\* password field of the form empty omits the password and the stored password
\* is kept (the other fields are updated); updateServiceNowCredential itself
\* keeps the stored password only when the password is absent or undefined.
C24_EmptyFormPasswordKeepsStored ==
  [][ (last'.op = "update" /\ last'.formEmpty) =>
        /\ "password" \in last'.omitted /\ ~ last'.emptyPassword
        /\ PasswordsKept ]_vars

\* C24 witness: the settings form was submitted with an empty password and a new
\* name for a credential whose password is not empty; the row has the new name
\* and its password.
C24_Witness ==
  /\ last.op = "update" /\ last.result = "returned" /\ last.formEmpty
  /\ \E r \in creds : r.id = last.id /\ r.name = "n2" /\ r.password = "p1"

\* C27: if saveServiceNowCredential throws, the call added no credential row to
\* the store, also when the read-back after a successful privileged insert
\* failed.
C27_ThrownSaveStoresNothing ==
  (last.op = "save" /\ last.result = "threw") =>
     ~ \E r \in creds : r.id = last.id

\* C28: if deleteConversation returns false, the conversation row and all of
\* its messages are unchanged in the store.
C28_FalseDeleteChangesNothing ==
  [][ (chatLast'.op = "deleteConversation" /\ chatLast'.ret = "false") =>
        (conversations' = conversations /\ messages' = messages) ]_vars

\* C29: once login has resolved with a user, a loadUser that was begun before
\* that moment and resolves after it does not overwrite the user: while the
\* user in the context is the one login set, the step that ends such a
\* loadUser leaves user as it is.
C29_EarlierLoadUserKeepsLoginUser ==
  [][\A k \in AuthSlots :
        ( /\ authLast.setBy = "login"
          /\ authCalls[k].fn = "loadUser" /\ authCalls[k].early
          /\ authCalls'[k].fn = "none" )
        => auth'.user = auth.user]_vars

\* C30: once every connect call in flight has settled, the connected client and
\* selectedCredentialId are those of the credential the user selected most
\* recently, in whatever order the overlapping connect calls completed; stated
\* for the behaviours in which no connect failed.
C30_LastSelectionConnected ==
  ( /\ InFlight(snCalls.connect) = 0 /\ snCalls.load = {}
    /\ picked.id # NoCred /\ ~picked.failed )
  => (sn.client = picked.id /\ sn.selectedCredentialId = picked.id)

====
